---- MODULE Spec2Model ----
(***************************************************************************)
(* Model of the glua lexer (parser/parser.go): a Lexer over a byte stream, *)
(* its Scan operation and the routines Scan dispatches to.                 *)
(*                                                                         *)
(* Bytes are integers 0..255, strings are sequences of bytes, a *Token or  *)
(* *Error is either Nil or a record, and the bufio.Reader is the pair      *)
(* (src, off): the bytes of the stream and the index of the next byte.     *)
(*                                                                         *)
(* l is the Lexer of the driver, ret what its last Scan returned;          *)
(* keywordTable is the package variable keywordsStr2Token; peers is a heap *)
(* with two Lexer instances over streams of their own.                     *)
(***************************************************************************)
EXTENDS Integers, Sequences, FiniteSets, TLC

VARIABLES l, ret, called, keywordTable, peers

vars == <<l, ret, called, keywordTable, peers>>

(***************************************************************************)
(* Byte values of the character literals the lexer tests for.              *)
(***************************************************************************)
EOF == -1

ChMinus == 45
ChAssign == 61
ChGt == 62
ChLt == 60
ChLeftParent == 40
ChRightParent == 41
ChPlus == 43
ChComma == 44
ChQuote == 39
ChDQuote == 34
ChDot == 46
ChColon == 58
ChOpenBrace == 123
ChCloseBrace == 125
ChLeftBracket == 91
ChRightBracket == 93
ChPound == 35
ChTilde == 126
ChNewline == 10
ChSpace == 32
ChTab == 9
ChCR == 13
ChBackslash == 92
ChLowerA == 97
ChLowerB == 98
ChLowerF == 102
ChLowerN == 110
ChLowerR == 114
ChLowerT == 116
ChLowerV == 118
ChZero == 48
ChUnderscore == 95

\* The bytes the escapes "\a" "\b" "\f" "\v" and "\x00" stand for in Go.
ChBell == 7
ChBackspace == 8
ChFormFeed == 12
ChVTab == 11
ChNul == 0

(***************************************************************************)
(* tokenType: 23 reserved words from iota = 0, then TId = 1<<8 + iota with *)
(* iota = 23 at its line, and the rest following it.                       *)
(***************************************************************************)
TAnd == 0
TBreak == 1
TDo == 2
TElse == 3
TElseif == 4
TEnd == 5
TFalse == 6
TFor == 7
TFunction == 8
TGoto == 9
TIf == 10
TIn == 11
TLocal == 12
TNil == 13
TNot == 14
TOr == 15
TRepeat == 16
TRequire == 17
TReturn == 18
TThen == 19
TTrue == 20
TUntil == 21
TWhile == 22
\* TId as plain iota, without the 1<<8.
TIdWithoutShift == 279 - 256

TId == 279
TAssign == 280
TEq == 281
TNe == 282
TGt == 283
TLt == 284
TGte == 285
TLte == 286
TMinus == 287
TMinusAssign == 288
TPlus == 289
TPlusAssign == 290
TNumber == 291
TStr == 292
TLeftParent == 293
TRightParent == 294
TComma == 295
TDot == 296
T2Dot == 297
TColon == 298
TOpenBrace == 299
TCloseBrace == 300
TLeftBracket == 301
TRightBracket == 302
TPound == 303

\* The value keywordsStr2Token is initialized with, keyed by the bytes of
\* the word.
keywordsStr2Token ==
  { <<<<97, 110, 100>>, TAnd>>,
    <<<<98, 114, 101, 97, 107>>, TBreak>>,
    <<<<100, 111>>, TDo>>,
    <<<<101, 108, 115, 101>>, TElse>>,
    <<<<101, 108, 115, 101, 105, 102>>, TElseif>>,
    <<<<101, 110, 100>>, TEnd>>,
    <<<<102, 97, 108, 115, 101>>, TFalse>>,
    <<<<102, 111, 114>>, TFor>>,
    <<<<102, 117, 110, 99, 116, 105, 111, 110>>, TFunction>>,
    <<<<103, 111, 116, 111>>, TGoto>>,
    <<<<105, 102>>, TIf>>,
    <<<<105, 110>>, TIn>>,
    <<<<108, 111, 99, 97, 108>>, TLocal>>,
    <<<<110, 105, 108>>, TNil>>,
    <<<<110, 111, 116>>, TNot>>,
    <<<<111, 114>>, TOr>>,
    <<<<114, 101, 112, 101, 97, 116>>, TRepeat>>,
    <<<<114, 101, 113, 117, 105, 114, 101>>, TRequire>>,
    <<<<114, 101, 116, 117, 114, 110>>, TReturn>>,
    <<<<116, 104, 101, 110>>, TThen>>,
    <<<<116, 114, 117, 101>>, TTrue>>,
    <<<<117, 110, 116, 105, 108>>, TUntil>>,
    <<<<119, 104, 105, 108, 101>>, TWhile>> }

\* A nil *Token or *Error.
Nil == [nil |-> TRUE]

(***************************************************************************)
(* Library operations, as Go computes them on byte strings.                *)
(***************************************************************************)

\* string(c) for an int c: the UTF-8 encoding of the code point c.  A byte
\* below 0x80 is itself; a byte 0x80..0xFF becomes two bytes.
RuneString(c) ==
  IF c < 128 THEN <<c>> ELSE <<192 + (c \div 64), 128 + (c % 64)>>

\* unicode.IsLetter(rune(c)) for c in 0..255 (Latin-1 range of the tables).
IsLetter(c) ==
  \/ c \in 65..90
  \/ c \in 97..122
  \/ c \in {170, 181, 186}
  \/ c \in 192..214
  \/ c \in 216..246
  \/ c \in 248..255

\* unicode.IsNumber(rune(c)) for c in 0..255.
IsNumber(c) ==
  \/ c \in 48..57
  \/ c \in {178, 179, 185}
  \/ c \in 188..190

\* strings.HasSuffix / strings.Contains / strings.TrimSuffix / ReplaceAll.
HasSuffix(s, suffix) ==
  /\ Len(s) >= Len(suffix)
  /\ SubSeq(s, Len(s) - Len(suffix) + 1, Len(s)) = suffix

Contains(s, substr) ==
  \E i \in 1..(Len(s) - Len(substr) + 1) :
    SubSeq(s, i, i + Len(substr) - 1) = substr

TrimSuffix(s, suffix) ==
  IF HasSuffix(s, suffix) THEN SubSeq(s, 1, Len(s) - Len(suffix)) ELSE s

ReplaceAll(s, old, new) ==
  [i \in 1..Len(s) |-> IF s[i] = old THEN new ELSE s[i]]

(***************************************************************************)
(* The cursor: peek, readNext, newLine.                                    *)
(***************************************************************************)
peek(lx) == IF lx.off <= Len(lx.src) THEN lx.src[lx.off] ELSE EOF

\* readNext returns the byte and leaves the lexer advanced: c is the byte
\* returned, l the lexer afterwards.
readNext(lx) ==
  IF lx.off <= Len(lx.src)
  THEN [c |-> lx.src[lx.off],
        l |-> [lx EXCEPT !.off = @ + 1, !.pos.column = @ + 1]]
  ELSE [c |-> EOF, l |-> lx]

newLine(lx) == [lx EXCEPT !.pos.column = 1, !.pos.line = @ + 1]

makeToken(lx, typ, val, tokenLen) ==
  [pos |-> [line |-> lx.pos.line,
            column |-> lx.pos.column - tokenLen,
            fileName |-> lx.pos.fileName],
   typ |-> typ,
   val |-> val]

MakeError(pos, msg, arg) == [pos |-> pos, msg |-> msg, arg |-> arg]

(***************************************************************************)
(* skipComment: called after the two '-' have been read.                   *)
(***************************************************************************)

\* for c = l.peek(); c == '='; c = l.peek() { l.readNext(); openTag += "=" }
RECURSIVE commentOpenRun(_, _)
commentOpenRun(lx, openTag) ==
  IF peek(lx) = ChAssign
  THEN commentOpenRun(readNext(lx).l, openTag \o <<ChAssign>>)
  ELSE [l |-> lx, c |-> peek(lx), openTag |-> openTag]

\* for c = l.peek(); c != EOF && !strings.Contains(str, closeTag); c = l.peek()
RECURSIVE commentCloseLoop(_, _, _)
commentCloseLoop(lx, str, closeTag) ==
  LET c == peek(lx) IN
  IF c # EOF /\ ~Contains(str, closeTag)
  THEN LET l1 == readNext(lx).l
           l2 == IF c = ChNewline THEN newLine(l1) ELSE l1
       IN commentCloseLoop(l2, str \o RuneString(c), closeTag)
  ELSE lx

\* commentCommon that reads the newline and does not count it.
RECURSIVE commentCommonNoNewLine(_)
commentCommonNoNewLine(lx) ==
  LET r == readNext(lx) IN
  IF r.c # EOF /\ r.c # ChNewline THEN commentCommonNoNewLine(r.l) ELSE r.l

\* common: for c = l.readNext(); c != EOF && c != '\n'; c = l.readNext() {}
\*         if c == '\n' { l.newLine() }
RECURSIVE commentCommon(_)
commentCommon(lx) ==
  LET r == readNext(lx) IN
  IF r.c # EOF /\ r.c # ChNewline
  THEN commentCommon(r.l)
  ELSE IF r.c = ChNewline THEN newLine(r.l) ELSE r.l

\* skipComment that knows line comments only.
skipCommentLineOnly(lx, first) == commentCommon(lx)

skipComment(lx, first) ==
  IF peek(lx) = ChLeftBracket
  THEN LET r == readNext(lx)
           o == commentOpenRun(r.l, RuneString(r.c))
       IN IF o.c # ChLeftBracket
          THEN commentCommon(o.l)
          ELSE LET openTag == o.openTag \o <<ChLeftBracket>>
                   closeTag == ReplaceAll(openTag, ChLeftBracket, ChRightBracket)
               IN commentCommon(commentCloseLoop(o.l, <<>>, closeTag))
  ELSE commentCommon(lx)

(***************************************************************************)
(* matchString.  The result is the pair the Go function returns, with the  *)
(* lexer as it leaves it: [l, tok, err].                                   *)
(***************************************************************************)
MsgInvalidEscape == "invalid escape sequence"
MsgReachEnd == "reach end"
MsgUnknownToken == "unknown token "
\* The two messages the source writes in Chinese, transliterated:
\* "a string cannot span lines" and "the string is not legal".
MsgSpanLine == "zifuchuan buneng kuahang"
MsgIllegalString == "zifuchuan bu hefa"

\* The switch on the byte after a backslash.  Go tries the cases in order;
\* `case c:` compares c with itself, so it takes every byte the cases
\* before it did not.
escapeSwitch(c) ==
  IF c = ChBackslash THEN [kind |-> "append", str |-> <<ChBackslash>>]
  ELSE IF c = ChLowerA THEN [kind |-> "append", str |-> <<ChBell>>]
  ELSE IF c = ChLowerB THEN [kind |-> "append", str |-> <<ChBackspace>>]
  ELSE IF c = ChLowerF THEN [kind |-> "append", str |-> <<ChFormFeed>>]
  ELSE IF c = ChLowerN THEN [kind |-> "append", str |-> <<ChNewline>>]
  ELSE IF c = ChLowerR THEN [kind |-> "append", str |-> <<ChCR>>]
  ELSE IF c = ChLowerT THEN [kind |-> "append", str |-> <<ChTab>>]
  ELSE IF c = ChLowerV THEN [kind |-> "append", str |-> <<ChVTab>>]
  ELSE IF c = ChZero THEN [kind |-> "append", str |-> <<ChNul>>]
  ELSE IF c = c THEN [kind |-> "append", str |-> RuneString(c)]
  ELSE IF c = ChNewline THEN [kind |-> "newline", str |-> <<ChNewline>>]
  ELSE [kind |-> "error", str |-> <<>>]

\* for c := l.readNext(); c != EOF; c = l.readNext() { ... }
RECURSIVE quotedLoop(_, _, _, _)
quotedLoop(lx, first, escape, str) ==
  LET r == readNext(lx)
      c == r.c
      l1 == r.l
  IN IF c = EOF
     THEN [l |-> l1, tok |-> l1.currentToken, err |-> Nil]
     ELSE IF escape
     THEN LET e == escapeSwitch(c) IN
          IF e.kind = "append"
          THEN quotedLoop(l1, first, FALSE, str \o e.str)
          ELSE IF e.kind = "newline"
          THEN quotedLoop(newLine(l1), first, FALSE, str \o e.str)
          ELSE [l |-> l1, tok |-> Nil,
                err |-> MakeError([line |-> l1.pos.line,
                                   column |-> l1.pos.column - 1,
                                   fileName |-> l1.pos.fileName],
                                  MsgInvalidEscape, <<>>)]
     ELSE IF c = ChBackslash
     THEN quotedLoop(l1, first, TRUE, str)
     ELSE IF c = first
     THEN LET t == makeToken(l1, TStr, str, 0)
              l2 == [l1 EXCEPT !.currentToken = t]
          IN [l |-> l2, tok |-> l2.currentToken, err |-> Nil]
     ELSE IF c = ChNewline
     THEN [l |-> l1, tok |-> Nil, err |-> MakeError(l1.pos, MsgSpanLine, <<>>)]
     ELSE quotedLoop(l1, first, FALSE, str \o RuneString(c))

\* stringOpenRun that forgets the level: the '=' are read but not kept.
RECURSIVE stringOpenRunNoLevel(_, _)
stringOpenRunNoLevel(lx, openTag) ==
  LET r == readNext(lx) IN
  IF r.c = ChAssign
  THEN stringOpenRunNoLevel(r.l, openTag)
  ELSE [l |-> r.l, c |-> r.c, openTag |-> openTag]

\* for c = l.readNext(); c == '='; c = l.readNext() { openTag += "=" }
RECURSIVE stringOpenRun(_, _)
stringOpenRun(lx, openTag) ==
  LET r == readNext(lx) IN
  IF r.c = ChAssign
  THEN stringOpenRun(r.l, openTag \o <<ChAssign>>)
  ELSE [l |-> r.l, c |-> r.c, openTag |-> openTag]

\* for c = l.peek(); c != EOF && !strings.Contains(str, closeTag); c = l.peek()
RECURSIVE stringCloseLoop(_, _, _)
stringCloseLoop(lx, str, closeTag) ==
  LET c == peek(lx) IN
  IF c # EOF /\ ~Contains(str, closeTag)
  THEN LET l1 == readNext(lx).l
           l2 == IF c = ChNewline THEN newLine(l1) ELSE l1
       IN stringCloseLoop(l2, str \o RuneString(c), closeTag)
  ELSE [l |-> lx, str |-> str]

longString(lx, first) ==
  LET o == stringOpenRun(lx, RuneString(first)) IN
  IF o.c # ChLeftBracket
  THEN [l |-> o.l, tok |-> Nil, err |-> MakeError(o.l.pos, MsgIllegalString, <<>>)]
  ELSE LET openTag == o.openTag \o <<ChLeftBracket>>
           closeTag == ReplaceAll(openTag, ChLeftBracket, ChRightBracket)
           l1 == IF peek(o.l) = ChNewline THEN newLine(readNext(o.l).l) ELSE o.l
           b == stringCloseLoop(l1, <<>>, closeTag)
       IN IF ~Contains(b.str, closeTag)
          THEN [l |-> b.l, tok |-> Nil, err |-> MakeError(b.l.pos, MsgReachEnd, <<>>)]
          ELSE LET t == makeToken(b.l, TStr, TrimSuffix(b.str, closeTag), 0)
                   l2 == [b.l EXCEPT !.currentToken = t]
               IN [l |-> l2, tok |-> l2.currentToken, err |-> Nil]

matchString(lx, first) ==
  IF first = ChQuote \/ first = ChDQuote
  THEN quotedLoop(lx, first, FALSE, <<>>)
  ELSE longString(lx, first)

(***************************************************************************)
(* matchNumber and keywordOrId: both leave the token in currentToken.      *)
(***************************************************************************)
RECURSIVE numberRun(_, _)
numberRun(lx, str) ==
  LET c == peek(lx) IN
  IF IsNumber(c)
  THEN numberRun(readNext(lx).l, str \o RuneString(c))
  ELSE [l |-> lx, str |-> str]

matchNumber(lx, first) ==
  LET n == numberRun(lx, RuneString(first)) IN
  [n.l EXCEPT !.currentToken = makeToken(n.l, TStr, n.str, Len(n.str))]

\* letterRun that takes digits into the run as well.
RECURSIVE letterRunWithDigits(_, _)
letterRunWithDigits(lx, str) ==
  LET c == peek(lx) IN
  IF IsLetter(c) \/ IsNumber(c)
  THEN letterRunWithDigits(readNext(lx).l, str \o RuneString(c))
  ELSE [l |-> lx, str |-> str]

RECURSIVE letterRun(_, _)
letterRun(lx, str) ==
  LET c == peek(lx) IN
  IF IsLetter(c)
  THEN letterRun(readNext(lx).l, str \o RuneString(c))
  ELSE [l |-> lx, str |-> str]

keywordOrId(lx, first) ==
  LET n == letterRun(lx, RuneString(first)) IN
  IF \E kw \in keywordTable : kw[1] = n.str
  THEN LET typ == (CHOOSE kw \in keywordTable : kw[1] = n.str)[2]
       IN [n.l EXCEPT !.currentToken = makeToken(n.l, typ, <<>>, Len(n.str))]
  ELSE [n.l EXCEPT !.currentToken = makeToken(n.l, TId, n.str, Len(n.str))]

(***************************************************************************)
(* Scan.  The result is [l, tok, err, at]: the lexer afterwards, the pair  *)
(* returned, and the offset of the byte the final dispatch was made on.    *)
(***************************************************************************)

\* l.currentToken = l.makeToken(typ, val, tokenLen) ... return l.currentToken, nil
emit(lx, typ, val, tokenLen, at) ==
  LET l1 == [lx EXCEPT !.currentToken = makeToken(lx, typ, val, tokenLen)]
  IN [l |-> l1, tok |-> l1.currentToken, err |-> Nil, at |-> at]

\* The operators with a two-byte form ending in second: read the second
\* byte when it is next, and make the token of the form found.
twoByte(lx, second, typ2, typ1, at) ==
  IF peek(lx) = second
  THEN emit(readNext(lx).l, typ2, <<>>, 2, at)
  ELSE emit(lx, typ1, <<>>, 1, at)

\* The end of the input answered with the current token and no Error.
scanEofAsToken(lx, at) ==
  [l |-> lx, tok |-> lx.currentToken, err |-> Nil, at |-> at]

scanEof(lx, at) ==
  [l |-> lx, tok |-> Nil,
   err |-> MakeError([line |-> lx.pos.line,
                      column |-> lx.pos.column - 1,
                      fileName |-> lx.pos.fileName],
                     MsgReachEnd, <<>>),
   at |-> at]

scanErr(lx, c, at) ==
  [l |-> lx, tok |-> Nil,
   err |-> MakeError([line |-> lx.pos.line,
                      column |-> lx.pos.column - 1,
                      fileName |-> lx.pos.fileName],
                     MsgUnknownToken, RuneString(c)),
   at |-> at]

\* From the label retry: to the return.
RECURSIVE scanRetry(_)
scanRetry(lx) ==
  LET at == lx.off
      r == readNext(lx)
      c == r.c
      l1 == r.l
  IN
  IF c = ChMinus
  THEN IF peek(l1) = ChMinus
       THEN scanRetry(skipComment(readNext(l1).l, c))
       ELSE twoByte(l1, ChAssign, TMinusAssign, TMinus, at)
  ELSE IF c = ChAssign THEN twoByte(l1, ChAssign, TEq, TAssign, at)
  ELSE IF c = ChGt THEN twoByte(l1, ChAssign, TGte, TGt, at)
  ELSE IF c = ChLt THEN twoByte(l1, ChAssign, TLte, TLt, at)
  ELSE IF c = ChLeftParent THEN emit(l1, TLeftParent, <<>>, 1, at)
  ELSE IF c = ChRightParent THEN emit(l1, TRightParent, <<>>, 1, at)
  ELSE IF c = ChPlus THEN twoByte(l1, ChAssign, TPlusAssign, TPlus, at)
  ELSE IF c = ChComma THEN emit(l1, TComma, <<>>, 1, at)
  ELSE IF c = ChQuote \/ c = ChDQuote
  THEN \* l.matchString(c): what it returns is dropped
       LET m == matchString(l1, c)
       IN [l |-> m.l, tok |-> m.l.currentToken, err |-> Nil, at |-> at]
  ELSE IF c = ChDot THEN twoByte(l1, ChDot, T2Dot, TDot, at)
  ELSE IF c = ChColon THEN emit(l1, TColon, <<>>, 1, at)
  ELSE IF c = ChOpenBrace THEN emit(l1, TOpenBrace, <<>>, 1, at)
  ELSE IF c = ChCloseBrace THEN emit(l1, TCloseBrace, <<>>, 1, at)
  ELSE IF c = ChLeftBracket
  THEN IF peek(l1) = ChLeftBracket \/ peek(l1) = ChAssign
       THEN \* return l.matchString(c)
            LET m == matchString(l1, c)
            IN [l |-> m.l, tok |-> m.tok, err |-> m.err, at |-> at]
       ELSE emit(l1, TLeftBracket, <<>>, 1, at)
  ELSE IF c = ChRightBracket THEN emit(l1, TRightBracket, <<>>, 1, at)
  ELSE IF c = ChPound THEN emit(l1, TPound, <<>>, 1, at)
  ELSE IF c = ChTilde
  THEN IF peek(l1) # ChAssign
       THEN scanErr(l1, c, at)
       ELSE emit(l1, TNe, <<>>, 2, at)
  ELSE IF c = ChNewline THEN scanRetry(newLine(l1))
  ELSE IF c = ChSpace \/ c = ChTab \/ c = ChCR THEN scanRetry(l1)
  ELSE IF c = EOF THEN scanEof(l1, at)
  ELSE IF IsLetter(c) \/ c = ChUnderscore
  THEN LET k == keywordOrId(l1, c)
       IN [l |-> k, tok |-> k.currentToken, err |-> Nil, at |-> at]
  ELSE IF IsNumber(c)
  THEN LET k == matchNumber(l1, c)
       IN [l |-> k, tok |-> k.currentToken, err |-> Nil, at |-> at]
  ELSE scanErr(l1, c, at)

ScanResult(lx) == scanRetry([lx EXCEPT !.prevToken = lx.currentToken])

FileName == "_lua5.1-tests/literals.lua"

InitLexer(src, fileName) ==
  [pos |-> [line |-> 1, column |-> 1, fileName |-> fileName],
   src |-> src,
   off |-> 1,
   prevToken |-> Nil,
   currentToken |-> Nil]

(***************************************************************************)
(* The inputs: every byte string up to a length over a small alphabet,     *)
(* long-bracket strings and comments of every level up to a bound, and the *)
(* inputs the documentation names.                                         *)
(***************************************************************************)
MaxLen == 4
MaxLevel == 2
MaxBody == 5
MaxBlankLen == 5
MaxWordLen == 4

SeqsUpTo(A, n) == UNION {[1..k -> A] : k \in 0..n}

\* " ' \ newline n q ~ = space
MainAlphabet ==
  {ChDQuote, ChQuote, ChBackslash, ChNewline, ChLowerN, 113, ChTilde,
   ChAssign, ChSpace}

MainInputs == SeqsUpTo(MainAlphabet, MaxLen)

\* ] = a newline
BodyAlphabet == {ChRightBracket, ChAssign, ChLowerA, ChNewline}

LongInputs ==
  { pre \o <<ChLeftBracket>> \o [i \in 1..n |-> ChAssign] \o <<ChLeftBracket>> \o body :
      pre \in {<<>>, <<ChMinus, ChMinus>>},
      n \in 0..MaxLevel,
      body \in SeqsUpTo(BodyAlphabet, MaxBody) }

\* - [ ] = newline space a
BlankAlphabet ==
  {ChMinus, ChLeftBracket, ChRightBracket, ChAssign, ChNewline, ChSpace,
   ChLowerA}

BlankInputs == SeqsUpTo(BlankAlphabet, MaxBlankLen)

\* d o i f 2 _ ( space: words, the keywords do and if among them, digits
\* and what separates them
WordAlphabet ==
  {100, 111, 105, 102, 50, ChUnderscore, ChLeftParent, ChSpace}

WordInputs == SeqsUpTo(WordAlphabet, MaxWordLen)

Corpus ==
  {
    \* (the empty input)
    <<>>,
    \* [==[abc]==]
    <<91, 61, 61, 91, 97, 98, 99, 93, 61, 61, 93>>,
    \* [==[abc]=]
    <<91, 61, 61, 91, 97, 98, 99, 93, 61, 93>>,
    \* [==[abc]=]]==]
    <<91, 61, 61, 91, 97, 98, 99, 93, 61, 93, 93, 61, 61, 93>>,
    \* [=[a]]]=]x
    <<91, 61, 91, 97, 93, 93, 93, 61, 93, 120>>,
    \* -- line comment\nidentifier
    <<45, 45, 32, 108, 105, 110, 101, 32, 99, 111, 109, 109, 101, 110, 116, 10, 105, 100, 101, 110, 116, 105, 102, 105, 101, 114>>,
    \* "abc\ndef"
    <<34, 97, 98, 99, 10, 100, 101, 102, 34>>,
    \* local
    <<108, 111, 99, 97, 108>>,
    \* local2
    <<108, 111, 99, 97, 108, 50>>,
    \* --[[ x ]] a
    <<45, 45, 91, 91, 32, 120, 32, 93, 93, 32, 97>>,
    \* --[==[\n]=]\n]==]\n(
    <<45, 45, 91, 61, 61, 91, 10, 93, 61, 93, 10, 93, 61, 61, 93, 10, 40>>,
    \* a "b
    <<97, 32, 34, 98>>,
    \* 'a\\zb'
    <<39, 97, 92, 122, 98, 39>>,
    \* "a\\\nb" c
    <<34, 97, 92, 10, 98, 34, 32, 99>>,
    \* a~=b
    <<97, 126, 61, 98>>,
    \* == >= <= -= += ..
    <<61, 61, 32, 62, 61, 32, 60, 61, 32, 45, 61, 32, 43, 61, 32, 46, 46>>,
    \*  \t\r\n--x\n--[[y]]
    <<32, 9, 13, 10, 45, 45, 120, 10, 45, 45, 91, 91, 121, 93, 93>>,
    \* "\\\n"(
    <<34, 92, 10, 34, 40>>,
    \* "\\\n"12
    <<34, 92, 10, 34, 49, 50>>,
    \* x, the byte 0xE9 (e acute in Latin-1), y
    <<120, 233, 121>>,
    \* "e acute" in UTF-8: the bytes 0xC3 0xA9 between double quotes
    <<34, 195, 169, 34>>,
    \* 12 and the byte 0xB2 (superscript two in Latin-1)
    <<49, 50, 178>>,
    \* --x\n"a"
    <<45, 45, 120, 10, 34, 97, 34>>,
    \* ( ) , { } [ ] # : .
    <<40, 32, 41, 32, 44, 32, 123, 32, 125, 32, 91, 32, 93, 32, 35, 32, 58, 32, 46>>
  }

(***************************************************************************)
(* The state machine: a driver that constructs the lexer over an input and *)
(* calls Scan again and again.  ret is what the last call returned, with   *)
(* the offset it started from.                                             *)
(***************************************************************************)
NoPeers == [heap |-> <<>>, at |-> <<>>, src |-> <<>>, n |-> <<>>, out |-> <<>>]

InitOver(inputs) ==
  /\ \E src \in inputs : l = InitLexer(src, FileName)
  /\ ret = [tok |-> Nil, err |-> Nil, at |-> 0, start |-> 0, line |-> 0]
  /\ called = FALSE
  /\ keywordTable = keywordsStr2Token
  /\ peers = NoPeers

\* One call t, err := l.Scan() of the driver.  ret keeps, besides the pair
\* returned, the offset and the line the call started from.
Scan ==
  LET r == ScanResult(l) IN
  /\ l' = r.l
  /\ ret' = [tok |-> r.tok, err |-> r.err, at |-> r.at, start |-> l.off,
             line |-> l.pos.line]
  /\ called' = TRUE
  /\ UNCHANGED <<keywordTable, peers>>

Next == Scan

Init == InitOver(MainInputs \cup Corpus)
Spec == Init /\ [][Next]_vars

InitLong == InitOver(LongInputs \cup Corpus)
SpecLong == InitLong /\ [][Next]_vars

InitBlank == InitOver(BlankInputs \cup LongInputs \cup Corpus)
SpecBlank == InitBlank /\ [][Next]_vars

InitWords == InitOver(WordInputs \cup Corpus)
SpecWords == InitWords /\ [][Next]_vars

(***************************************************************************)
(* Two lexers over two streams.  peers.heap holds the Lexer values that    *)
(* InitLexer allocated, peers.at the pointer each instance holds, peers.n  *)
(* how many calls each instance has made and peers.out what its last call  *)
(* returned.                                                               *)
(***************************************************************************)
MaxPeerLen == 2
MaxCalls == 3

PeerAlphabet == {105, 102, ChDQuote, ChSpace}
PeerInputs == SeqsUpTo(PeerAlphabet, MaxPeerLen)

\* One Lexer value kept for every caller: the pointer returned is always the
\* same one.
newLexerShared(heap, src, fileName) ==
  [heap |-> <<InitLexer(src, fileName)>>, ptr |-> 1]

\* l := Lexer{} ... return &l: every call returns a pointer to a Lexer
\* value of its own.
newLexer(heap, src, fileName) ==
  [heap |-> Append(heap, InitLexer(src, fileName)), ptr |-> Len(heap) + 1]

NoResult == [tok |-> Nil, err |-> Nil]

InitTwo ==
  /\ l = InitLexer(<<>>, FileName)
  /\ ret = [tok |-> Nil, err |-> Nil, at |-> 0, start |-> 0, line |-> 0]
  /\ called = FALSE
  /\ keywordTable = keywordsStr2Token
  /\ \E src1 \in PeerInputs, src2 \in PeerInputs :
       LET a == newLexer(<<>>, src1, FileName)
           b == newLexer(a.heap, src2, FileName)
       IN peers = [heap |-> b.heap, at |-> <<a.ptr, b.ptr>>,
                   src |-> <<src1, src2>>, n |-> <<0, 0>>,
                   out |-> <<NoResult, NoResult>>]

\* One call of Scan through the pointer instance i holds.  Scan reads and
\* writes the fields of *l and reads keywordsStr2Token.
ScanPeer(i) ==
  LET r == ScanResult(peers.heap[peers.at[i]]) IN
  /\ peers.n[i] < MaxCalls
  /\ peers' = [peers EXCEPT !.heap[peers.at[i]] = r.l,
                            !.n[i] = @ + 1,
                            !.out[i] = [tok |-> r.tok, err |-> r.err]]
  /\ UNCHANGED <<l, ret, called, keywordTable>>

ScanFirst == ScanPeer(1)
ScanSecond == ScanPeer(2)

NextTwo == ScanFirst \/ ScanSecond

SpecTwo == InitTwo /\ [][NextTwo]_vars

(***************************************************************************)
(* A caller that goes on calling Scan for ever, over short inputs of every *)
(* shape: comments, long brackets, quoted strings, words, newlines.        *)
(***************************************************************************)
MaxLiveLen == 2

LiveAlphabet ==
  {ChMinus, ChLeftBracket, ChRightBracket, ChAssign, ChNewline, ChDQuote,
   ChLowerA, ChSpace}

LiveInputs == SeqsUpTo(LiveAlphabet, MaxLiveLen)

InitLive == InitOver(LiveInputs)
SpecLive == InitLive /\ [][Next]_vars /\ WF_vars(Scan)

TypeOK ==
  /\ l.off \in 1..(Len(l.src) + 1)
  /\ called \in BOOLEAN

(***************************************************************************)
(* Vocabulary of the properties: what the documentation says an input      *)
(* holds, read off the input bytes alone.                                  *)
(***************************************************************************)
Src == l.src

ByteAt(i) == IF i \in 1..Len(Src) THEN Src[i] ELSE EOF

NewlinesConsumed == Cardinality({i \in 1..(l.off - 1) : Src[i] = ChNewline})

\* The escapes the documentation recognizes after a backslash.
RecognizedEscapes ==
  {ChBackslash, ChLowerA, ChLowerB, ChLowerF, ChLowerN, ChLowerR, ChLowerT,
   ChLowerV, ChZero, ChNewline}

\* What ends a quoted string whose body starts at i: its closing quote, an
\* unescaped newline, an unrecognized escape, or the end of the input.
RECURSIVE QuotedOutcome(_, _)
QuotedOutcome(i, quote) ==
  IF i > Len(Src) THEN "eof"
  ELSE IF Src[i] = ChBackslash
  THEN IF i + 1 > Len(Src) THEN "eof"
       ELSE IF Src[i + 1] \in RecognizedEscapes THEN QuotedOutcome(i + 2, quote)
       ELSE "badescape"
  ELSE IF Src[i] = quote THEN "closed"
  ELSE IF Src[i] = ChNewline THEN "newline"
  ELSE QuotedOutcome(i + 1, quote)

\* The last Scan dispatched on a quote.
StartedQuoted == called /\ ByteAt(ret.at) \in {ChQuote, ChDQuote}

\* The number of '=' from index i on.
RECURSIVE LevelAt(_)
LevelAt(i) == IF ByteAt(i) = ChAssign THEN 1 + LevelAt(i + 1) ELSE 0

\* A long-bracket opener [ =* [ stands at index i.
LongOpenerAt(i) ==
  /\ ByteAt(i) = ChLeftBracket
  /\ ByteAt(i + 1 + LevelAt(i + 1)) = ChLeftBracket

\* A closer ] =^n ] stands at index j.
CloserAt(j, n) ==
  /\ ByteAt(j) = ChRightBracket
  /\ \A k \in 1..n : ByteAt(j + k) = ChAssign
  /\ ByteAt(j + n + 1) = ChRightBracket

\* The index of the first closer of level n at or after from; 0 when none.
FirstCloser(from, n) ==
  IF \E j \in from..Len(Src) : CloserAt(j, n)
  THEN CHOOSE j \in from..Len(Src) :
         CloserAt(j, n) /\ \A k \in from..(j - 1) : ~CloserAt(k, n)
  ELSE 0

\* The last Scan dispatched on the opener of a long-bracket string.
StartedLong == called /\ LongOpenerAt(ret.at)

\* The level of that string and the index of the first byte of its body
\* (a newline right after the opener is not part of the body).
LongLevel == LevelAt(ret.at + 1)
LongBody ==
  LET b == ret.at + LongLevel + 2
  IN IF ByteAt(b) = ChNewline THEN b + 1 ELSE b

\* The last Scan was called with a long comment next in the input.
CalledAtLongComment ==
  /\ called
  /\ ByteAt(ret.start) = ChMinus
  /\ ByteAt(ret.start + 1) = ChMinus
  /\ LongOpenerAt(ret.start + 2)

CommentLevel == LevelAt(ret.start + 3)
CommentCloser == FirstCloser(ret.start + CommentLevel + 4, CommentLevel)

\* From index i on the input holds only whitespace, newlines and comments.
RECURSIVE OnlyBlank(_)
OnlyBlank(i) ==
  IF i > Len(Src) THEN TRUE
  ELSE IF Src[i] \in {ChSpace, ChTab, ChCR, ChNewline} THEN OnlyBlank(i + 1)
  ELSE IF Src[i] = ChMinus /\ ByteAt(i + 1) = ChMinus
  THEN IF LongOpenerAt(i + 2)
       THEN LET n == LevelAt(i + 3)
                j == FirstCloser(i + n + 4, n)
            IN IF j = 0 THEN TRUE ELSE OnlyBlank(j + n + 2)
       ELSE IF \E k \in (i + 2)..Len(Src) : Src[k] = ChNewline
       THEN OnlyBlank(1 + CHOOSE k \in (i + 2)..Len(Src) :
                            Src[k] = ChNewline
                            /\ \A m \in (i + 2)..(k - 1) : Src[m] # ChNewline)
       ELSE TRUE
  ELSE FALSE

\* The two-byte operators and their kinds.
CompoundOperators ==
  { <<ChAssign, ChAssign, TEq>>,
    <<ChTilde, ChAssign, TNe>>,
    <<ChGt, ChAssign, TGte>>,
    <<ChLt, ChAssign, TLte>>,
    <<ChMinus, ChAssign, TMinusAssign>>,
    <<ChPlus, ChAssign, TPlusAssign>>,
    <<ChDot, ChDot, T2Dot>> }

ReturnedError == ret.tok = Nil /\ ret.err # Nil

(***************************************************************************)
(* The properties.                                                         *)
(***************************************************************************)

\* C1: every call to Scan returns exactly one of (Token, Error): never both
\* non-nil and never both nil.
C1_ExactlyOneResult ==
  called => ((ret.tok = Nil) # (ret.err = Nil))

\* C2: when Scan starts a quoted string and meets an unescaped newline
\* before the closing quote, the call returns an Error and no token.
C2_NewlineInQuotedIsError ==
  (StartedQuoted /\ QuotedOutcome(ret.at + 1, ByteAt(ret.at)) = "newline")
    => ReturnedError

\* C3: when the end of the input is reached inside a quoted string or a
\* long-bracket string, the call returns an Error and no token.
C3_UnterminatedIsError ==
  /\ (StartedQuoted /\ QuotedOutcome(ret.at + 1, ByteAt(ret.at)) = "eof")
       => ReturnedError
  /\ (StartedLong /\ FirstCloser(LongBody, LongLevel) = 0)
       => ReturnedError

\* C4: inside a quoted string, a backslash followed by a byte that is not a
\* recognized escape makes Scan return the Error "invalid escape sequence"
\* and no token.
C4_InvalidEscapeIsError ==
  (StartedQuoted /\ QuotedOutcome(ret.at + 1, ByteAt(ret.at)) = "badescape")
    => (ReturnedError /\ ret.err.msg = MsgInvalidEscape)

\* C5: a two-byte compound operator yields one token of the compound kind,
\* and the Scan call that returns it consumes both bytes.
C5_CompoundOperatorIsOneToken ==
  \A op \in CompoundOperators :
    (called /\ ByteAt(ret.at) = op[1] /\ ByteAt(ret.at + 1) = op[2])
      => /\ ret.err = Nil
         /\ ret.tok # Nil
         /\ ret.tok.typ = op[3]
         /\ l.off = ret.at + 2

\* C6: the line counter is 1 plus the number of newline bytes consumed.
C6_LineCountsNewlines ==
  l.pos.line = 1 + NewlinesConsumed

\* C7: every Position carried by a returned Token or Error has line >= 1
\* and column >= 1.
C7_PositionsStartAtOne ==
  called =>
    /\ ret.tok # Nil => (ret.tok.pos.line >= 1 /\ ret.tok.pos.column >= 1)
    /\ ret.err # Nil => (ret.err.pos.line >= 1 /\ ret.err.pos.column >= 1)

\* C8: a long comment consumes input through its matching closer and no
\* further: an identifier right after the closer is the token Scan returns.
C8_LongCommentEndsAtCloser ==
  (/\ CalledAtLongComment
   /\ CommentCloser # 0
   /\ IsLetter(ByteAt(CommentCloser + CommentLevel + 2)))
    => /\ ret.at = CommentCloser + CommentLevel + 2
       /\ ret.err = Nil
       /\ ret.tok # Nil

\* C9: a long-bracket string of level N is closed only by the first
\* ] =^N ] after its opener: the token holds the bytes up to that closer
\* and the input is consumed through it; closers of another level are part
\* of the text; with no matching closer the call returns an Error.
C9_LongStringLevelMatches ==
  StartedLong =>
    LET j == FirstCloser(LongBody, LongLevel) IN
    IF j = 0
    THEN ReturnedError /\ l.off = Len(Src) + 1
    ELSE /\ ret.err = Nil
         /\ ret.tok # Nil
         /\ ret.tok.typ = TStr
         /\ ret.tok.val = SubSeq(Src, LongBody, j - 1)
         /\ l.off = j + LongLevel + 2

\* A string of level >= 1 was returned whose text holds a level-0 closer.
C9_Witness ==
  /\ StartedLong
  /\ LongLevel >= 1
  /\ ret.err = Nil
  /\ ret.tok # Nil
  /\ Contains(ret.tok.val, <<ChRightBracket, ChRightBracket>>)

LineOf(i) == 1 + Cardinality({k \in 1..(i - 1) : ByteAt(k) = ChNewline})

ColumnOf(i) ==
  LET before == {k \in 1..(i - 1) : ByteAt(k) = ChNewline}
  IN IF before = {} THEN i
     ELSE i - (CHOOSE k \in before : \A m \in before : m <= k)

\* The punctuation bytes without a longer form, and their kinds.
SinglePunctuation ==
  { <<ChLeftParent, TLeftParent>>,
    <<ChRightParent, TRightParent>>,
    <<ChComma, TComma>>,
    <<ChOpenBrace, TOpenBrace>>,
    <<ChCloseBrace, TCloseBrace>>,
    <<ChRightBracket, TRightBracket>>,
    <<ChPound, TPound>>,
    <<ChColon, TColon>>,
    <<ChLeftBracket, TLeftBracket>> }

\* The last Scan dispatched on the punctuation byte p[1] ('[' not followed
\* by '[' or '=').
DispatchedOnPunctuation(p) ==
  /\ called
  /\ ByteAt(ret.at) = p[1]
  /\ p[1] = ChLeftBracket => ByteAt(ret.at + 1) \notin {ChLeftBracket, ChAssign}

\* C11: a single-character punctuation byte yields exactly its token, with
\* empty text and with the line and 1-based column of that byte, wherever
\* in the input it stands.
C11_PunctuationTokenAtItsByte ==
  \A p \in SinglePunctuation :
    DispatchedOnPunctuation(p)
      => /\ ret.err = Nil
         /\ ret.tok # Nil
         /\ ret.tok.typ = p[2]
         /\ ret.tok.val = <<>>
         /\ ret.tok.pos.line = LineOf(ret.at)
         /\ ret.tok.pos.column = ColumnOf(ret.at)

\* The last Scan was called with a line comment next in the input: two '-'
\* that no long-bracket opener follows.
CalledAtLineComment ==
  /\ called
  /\ ByteAt(ret.start) = ChMinus
  /\ ByteAt(ret.start + 1) = ChMinus
  /\ ~LongOpenerAt(ret.start + 2)

\* The index of the newline that ends that comment; 0 when the input ends
\* first.
CommentNewline ==
  LET nls == {k \in (ret.start + 2)..Len(Src) : Src[k] = ChNewline}
  IN IF nls = {} THEN 0 ELSE CHOOSE k \in nls : \A m \in nls : k <= m

\* The index of the first byte after index k that is not a space, a tab or
\* a carriage return (Len(Src) + 1 when there is none).
RECURSIVE SkipSpaces(_)
SkipSpaces(i) ==
  IF ByteAt(i) \in {ChSpace, ChTab, ChCR} THEN SkipSpaces(i + 1) ELSE i

\* A token stands on the line after the comment: its first byte.
TokenAfterComment == SkipSpaces(CommentNewline + 1)

LineCommentThenToken ==
  /\ CalledAtLineComment
  /\ CommentNewline # 0
  /\ ByteAt(TokenAfterComment) \notin {EOF, ChNewline}
  /\ ~(ByteAt(TokenAfterComment) = ChMinus
       /\ ByteAt(TokenAfterComment + 1) = ChMinus)

\* The index after the maximal run of letters that follows index i.
RECURSIVE LetterRunEnd(_)
LetterRunEnd(i) == IF IsLetter(ByteAt(i + 1)) THEN LetterRunEnd(i + 1) ELSE i + 1

\* The bytes from i up to, not including, j are ASCII.
IsAscii(i, j) == \A k \in i..(j - 1) : ByteAt(k) < 128

AtLineAfterComment ==
  [l EXCEPT !.off = CommentNewline + 1,
            !.pos = [line |-> ret.line + 1, column |-> 1,
                     fileName |-> l.pos.fileName],
            !.currentToken = l.prevToken]

DispatchedOnWord ==
  /\ called
  /\ (IsLetter(ByteAt(ret.at)) \/ ByteAt(ret.at) = ChUnderscore)

\* The maximal run of letters that starts with that byte.
Word == SubSeq(Src, ret.at, LetterRunEnd(ret.at) - 1)

IsKeyword(w) == \E kw \in keywordsStr2Token : kw[1] = w

KeywordKind(w) == (CHOOSE kw \in keywordsStr2Token : kw[1] = w)[2]

\* C13: for a maximal run of letters starting with a letter or underscore,
\* Scan returns a reserved-word token with empty text when the run is a
\* keyword, and otherwise an identifier token whose text is exactly the run.
C13_KeywordOrIdentifier ==
  DispatchedOnWord =>
    /\ ret.err = Nil
    /\ ret.tok # Nil
    /\ l.off = LetterRunEnd(ret.at)
    /\ IF IsKeyword(Word)
       THEN ret.tok.typ = KeywordKind(Word) /\ ret.tok.val = <<>>
       ELSE ret.tok.typ = TId /\ ret.tok.val = Word

\* The input local2.
Local2 == <<108, 111, 99, 97, 108, 50>>

IsDigit(c) == c \in 48..57

\* C14 as stated: scanning local2 yields an identifier token for local.
C14_Local2IdentifierThenDigit ==
  (called /\ Src = Local2 /\ ret.at = 1)
    => (ret.tok # Nil /\ ret.tok.typ = TId /\ ret.tok.val = SubSeq(Local2, 1, 5))

\* C14, amended: scanning local2 yields the reserved-word token local, with
\* empty text, then a separate token that starts at the digit 2.  In
\* general a run of ASCII letters ends before a digit that follows it, and
\* the digit starts the token of a Scan call of its own.
C14_WordEndsBeforeDigit ==
  /\ (called /\ Src = Local2 /\ ret.at = 1)
       => (ret.tok # Nil /\ ret.tok.typ = TLocal /\ ret.tok.val = <<>>
           /\ l.off = 6)
  /\ (called /\ Src = Local2 /\ ret.at = 6)
       => (ret.tok # Nil /\ ret.start = 6 /\ ret.tok.val = <<50>>
           /\ ret.tok.pos.column = 6)
  /\ (DispatchedOnWord
      /\ IsAscii(ret.at, LetterRunEnd(ret.at))
      /\ IsDigit(ByteAt(LetterRunEnd(ret.at))))
       => /\ ret.err = Nil
          /\ ret.tok # Nil
          /\ l.off = LetterRunEnd(ret.at)
          /\ IF IsKeyword(Word)
             THEN ret.tok.typ = KeywordKind(Word) /\ ret.tok.val = <<>>
             ELSE ret.tok.typ = TId /\ ret.tok.val = Word
  /\ (called /\ IsDigit(ByteAt(ret.at)) /\ IsLetter(ByteAt(ret.at - 1)))
       => /\ ret.start = ret.at
          /\ ret.err = Nil
          /\ ret.tok # Nil
          /\ Len(ret.tok.val) >= 1
          /\ ret.tok.val[1] = ByteAt(ret.at)

\* The second Scan over local2 returned the token of the digit after the
\* first returned the reserved word.
C14_Witness ==
  /\ called
  /\ Src = Local2
  /\ ret.at = 6
  /\ ret.tok # Nil
  /\ ret.tok.val = <<50>>
  /\ l.prevToken # Nil
  /\ l.prevToken.typ = TLocal

\* The declared token kinds, and those of them that are reserved words.
ReservedKinds ==
  {TAnd, TBreak, TDo, TElse, TElseif, TEnd, TFalse, TFor, TFunction, TGoto,
   TIf, TIn, TLocal, TNil, TNot, TOr, TRepeat, TRequire, TReturn, TThen,
   TTrue, TUntil, TWhile}

OtherKinds ==
  {TId, TAssign, TEq, TNe, TGt, TLt, TGte, TLte, TMinus, TMinusAssign,
   TPlus, TPlusAssign, TNumber, TStr, TLeftParent, TRightParent, TComma,
   TDot, T2Dot, TColon, TOpenBrace, TCloseBrace, TLeftBracket,
   TRightBracket, TPound}

TokenKinds == ReservedKinds \cup OtherKinds

\* The driver's test t.typ > 1<<8.
DriverTakesAsOther(typ) == typ > 256

\* C15: every token Scan returns has a declared kind; the reserved words
\* are the kinds the keyword table maps to and exactly the kinds below 256,
\* and the driver's test typ > 1<<8 holds of exactly the other kinds.
C15_KindsInDisjointRanges ==
  /\ \A k \in TokenKinds :
       /\ (k \in ReservedKinds) <=> (k < 256)
       /\ (k \in OtherKinds) <=> DriverTakesAsOther(k)
  /\ ReservedKinds = {kw[2] : kw \in keywordTable}
  /\ (called /\ ret.tok # Nil)
       => /\ ret.tok.typ \in TokenKinds
          /\ (ret.tok.typ \in ReservedKinds) <=> (ret.tok.typ < 256)
          /\ (ret.tok.typ \in OtherKinds) <=> DriverTakesAsOther(ret.tok.typ)
          /\ (ret.tok.typ \in ReservedKinds) => ret.tok.val = <<>>

\* A reserved word was returned right after an identifier.
C15_Witness ==
  /\ called
  /\ ret.tok # Nil
  /\ ret.tok.typ \in ReservedKinds
  /\ l.prevToken # Nil
  /\ l.prevToken.typ = TId

\* The single-character escapes of the documentation and the byte each one
\* stands for.
SingleCharEscapes ==
  {<<ChBackslash, ChBackslash>>, <<ChLowerA, ChBell>>,
   <<ChLowerB, ChBackspace>>, <<ChLowerF, ChFormFeed>>,
   <<ChLowerN, ChNewline>>, <<ChLowerR, ChCR>>, <<ChLowerT, ChTab>>,
   <<ChLowerV, ChVTab>>, <<ChZero, ChNul>>}

EscapeByte(c) == (CHOOSE e \in SingleCharEscapes : e[1] = c)[2]

\* The body of the quoted string from index i on, read as the documentation
\* reads it: closed tells whether a closing quote is found with nothing but
\* plain bytes and single-character escapes before it, text is the body with
\* each escape replaced by its byte and every other byte kept.
RECURSIVE DecodedBody(_, _, _)
DecodedBody(i, quote, text) ==
  IF i > Len(Src) THEN [closed |-> FALSE, text |-> text, escapes |-> 0]
  ELSE IF Src[i] = ChBackslash
  THEN IF /\ i + 1 <= Len(Src)
          /\ \E e \in SingleCharEscapes : e[1] = Src[i + 1]
       THEN LET r == DecodedBody(i + 2, quote,
                                 Append(text, EscapeByte(Src[i + 1])))
            IN [r EXCEPT !.escapes = @ + 1]
       ELSE [closed |-> FALSE, text |-> text, escapes |-> 0]
  ELSE IF Src[i] = quote THEN [closed |-> TRUE, text |-> text, escapes |-> 0]
  ELSE IF Src[i] = ChNewline THEN [closed |-> FALSE, text |-> text, escapes |-> 0]
  ELSE DecodedBody(i + 1, quote, Append(text, Src[i]))

RECURSIVE RunAlone(_, _)
RunAlone(src, n) ==
  IF n = 0 THEN [l |-> InitLexer(src, FileName), out |-> NoResult]
  ELSE LET r == ScanResult(RunAlone(src, n - 1).l)
       IN [l |-> r.l, out |-> [tok |-> r.tok, err |-> r.err]]

\* C17: under every interleaving of the Scan calls of two lexers, each
\* lexer is, after its n-th call, in the state it reaches when it runs
\* alone and has returned what it returns alone; and the keyword table
\* still holds what it was declared with.
C17_InstancesIndependent ==
  /\ keywordTable = keywordsStr2Token
  /\ \A i \in 1..Len(peers.at) :
       LET alone == RunAlone(peers.src[i], peers.n[i]) IN
       /\ peers.heap[peers.at[i]] = alone.l
       /\ peers.out[i] = alone.out

\* Both lexers have scanned, over different streams, one is at its end and
\* the other returned a token.
C17_Witness ==
  /\ Len(peers.at) = 2
  /\ peers.src[1] # peers.src[2]
  /\ peers.n[1] >= 2
  /\ peers.n[2] >= 2
  /\ peers.out[1].tok # Nil
  /\ peers.out[2].err # Nil

\* The last Scan dispatched on a decimal digit.
DispatchedOnDigit == called /\ IsDigit(ByteAt(ret.at))

\* The index after the maximal run of decimal digits that holds index i.
RECURSIVE DigitRunEnd(_)
DigitRunEnd(i) == IF IsDigit(ByteAt(i + 1)) THEN DigitRunEnd(i + 1) ELSE i + 1

\* C18: a maximal run of decimal digits yields one token of the kind of
\* quoted strings, never TNumber, whose text is the whole run and whose
\* position is the line and column of the first digit; the call stops right
\* after the run.
C18_DigitRunIsOneStringKindToken ==
  DispatchedOnDigit =>
    /\ ret.err = Nil
    /\ ret.tok # Nil
    /\ ret.tok.typ = TStr
    /\ ret.tok.typ # TNumber
    /\ ret.tok.val = SubSeq(Src, ret.at, DigitRunEnd(ret.at) - 1)
    /\ l.off = DigitRunEnd(ret.at)
    /\ ret.tok.pos.line = LineOf(ret.at)
    /\ ret.tok.pos.column = ColumnOf(ret.at)

\* The last Scan returned the token of a string, quoted or long-bracket,
\* that is closed in the input.
ReturnedClosedString ==
  /\ called
  /\ ret.err = Nil
  /\ ret.tok # Nil
  /\ \/ /\ StartedQuoted
        /\ QuotedOutcome(ret.at + 1, ByteAt(ret.at)) = "closed"
     \/ /\ StartedLong
        /\ FirstCloser(LongBody, LongLevel) # 0

\* C19: the position in a string token is the cursor position of the lexer
\* when the string has been scanned, which is the line and column just
\* after the closing delimiter and not those of the opening delimiter.
C19_StringPositionIsAfterCloser ==
  ReturnedClosedString =>
    /\ ret.tok.typ = TStr
    /\ ret.tok.pos = l.pos
    /\ ret.tok.pos.line = LineOf(l.off)
    /\ ret.tok.pos.column = ColumnOf(l.off)
    /\ ~(/\ ret.tok.pos.line = LineOf(ret.at)
         /\ ret.tok.pos.column = ColumnOf(ret.at))

\* The last Scan returned the Error "reach end".
ReturnedReachEnd == ReturnedError /\ ret.err.msg = MsgReachEnd

\* C20: every Scan call returns; a call that does not return the Error
\* "reach end" has consumed at least one byte; once "reach end" is
\* returned the input is used up and one more call returns "reach end"
\* again and leaves the position where it is; and a caller that keeps
\* calling Scan is eventually answered "reach end" for ever.
C20_ScanReachesEndAndStays ==
  /\ [](called => (ReturnedReachEnd \/ l.off > ret.start))
  /\ [](ReturnedReachEnd =>
          /\ l.off = Len(Src) + 1
          /\ LET r == ScanResult(l)
             IN /\ r.tok = Nil
                /\ r.err # Nil
                /\ r.err.msg = MsgReachEnd
                /\ r.l.off = l.off
                /\ r.l.pos = l.pos)
  /\ <>[]ReturnedReachEnd

\* "reach end" was returned by a call made at the end of an input of more
\* than one token, after a call that had returned a token.
C20_Witness ==
  /\ ReturnedReachEnd
  /\ ret.start = Len(Src) + 1
  /\ l.currentToken # Nil
  /\ l.prevToken # Nil
  /\ Len(Src) >= 2

====
